---- MODULE Spec2Model ----
(***************************************************************************)
(* chess-tracker backend (src/backend/main.py, migrate_csv.py,             *)
(* migrate_mistakes.py): the activities and mistakes tables, the CRUD and  *)
(* listing endpoints, the statistics endpoints, the CSV imports and the    *)
(* SQLite date arithmetic behind the weekly buckets.                       *)
(*                                                                         *)
(* Granularity.  FastAPI runs the def handlers on a thread pool, each      *)
(* request with a connection of its own (get_db_conn), and the import      *)
(* scripts are processes with their own connection.  A step of the model   *)
(* is one call on the connection or cursor: execute, fetch, commit.  Steps *)
(* of different connections interleave freely.                             *)
(*                                                                         *)
(* Locking (SQLite, rollback journal, Python's implicit transactions).     *)
(*  - INSERT and DELETE take the write lock, held until the connection     *)
(*    commits or closes.  A statement that finds the lock taken waits up   *)
(*    to the connection's timeout and then raises "database is locked".    *)
(*  - A SELECT that has produced a row holds a shared lock until its       *)
(*    result is fetched.  commit needs every other connection's shared     *)
(*    lock released; it waits up to the timeout and then raises.           *)
(*  - Waiting is a step taken later; the timeout is the step taken while   *)
(*    the lock is still held.                                              *)
(*  - Both tables exist: each import script has run its CREATE TABLE.      *)
(*                                                                         *)
(* Encodings.                                                              *)
(*  - A date string "YYYY-MM-DD" is the integer YYYYMMDD made of its       *)
(*    digits; the empty string is 0.  On zero-padded strings the order of  *)
(*    the integers is the byte order SQLite compares TEXT with.  A CSV     *)
(*    date "DD/MM/YYYY" is the integer DDMMYYYY.                           *)
(*  - Optional[T] / SQL NULL / NaN: None is the empty sequence <<>>, a     *)
(*    present value v is the one-element sequence <<v>>.                   *)
(*  - created_at (CURRENT_TIMESTAMP) is not modelled: no endpoint reads    *)
(*    it except to echo it.                                                *)
(***************************************************************************)
EXTENDS Integers, Sequences, FiniteSets, TLC

VARIABLES
    activities,   \* rows of table activities (committed state)
    act_seq,      \* sqlite_sequence entry of activities (AUTOINCREMENT)
    act_issued,   \* history: every id the activities table has handed out
    mistakes,     \* rows of table mistakes (committed state)
    mis_seq,      \* sqlite_sequence entry of mistakes
    mis_issued,   \* history: every id the mistakes table has handed out
    reqs,         \* per connection: the request it serves, the statement it is at, its locals
    db_lock,      \* the connection holding SQLite's write lock, or 0
    started,      \* history: the number of requests started (bounds the runs)
    wk            \* SpecWeek: the date given to date(D,'weekday 0','-6 days') and its result

vars == <<activities, act_seq, act_issued, mistakes, mis_seq, mis_issued,
          reqs, db_lock, started, wk>>

tables == <<activities, act_seq, act_issued, mistakes, mis_seq, mis_issued>>

None == <<>>
Some(v) == <<v>>
IsNone(o) == o = <<>>
Val(o) == o[1]

(***************************************************************************)
(* SQLite date arithmetic: date(D, 'weekday 0', '-6 days').                *)
(***************************************************************************)

\* Fields of a "YYYY-MM-DD" string.
YearOf(s) == s \div 10000
MonthOf(s) == (s \div 100) % 100
DayOf(s) == s % 100

\* SQLite's parseYyyyMmDd: four digits, '-', a month 01..12, '-', a day 01..31.
\* The day is not checked against the month: 2026-02-30 parses.
ParsesAsDate(s) == s > 0 /\ MonthOf(s) \in 1..12 /\ DayOf(s) \in 1..31

\* SQLite's computeJD: the Julian day number (at noon) of year/month/day.
ComputeJD(y, m, d) ==
    LET Y == IF m <= 2 THEN y - 1 ELSE y
        M == IF m <= 2 THEN m + 12 ELSE m
        A == Y \div 100
        B == 2 - A + (A \div 4)
        X1 == (36525 * (Y + 4716)) \div 100
        X2 == (306001 * (M + 1)) \div 10000
    IN  X1 + X2 + d + B - 1524

\* SQLite's computeYMD: the "YYYY-MM-DD" string of a Julian day number.
ComputeYMD(Z) ==
    LET A0 == (4 * Z - 7468865) \div 146097
        A == Z + 1 + A0 - (A0 \div 4)
        B == A + 1524
        C == (20 * B - 2442) \div 7305
        D == (36525 * C) \div 100
        E == (10000 * (B - D)) \div 306001
        X1 == (306001 * E) \div 10000
        day == B - D - X1
        month == IF E < 14 THEN E - 1 ELSE E - 13
        year == IF month > 2 THEN C - 4716 ELSE C - 4715
    IN  year * 10000 + month * 100 + day

\* strftime('%w'): 0 = Sunday .. 6 = Saturday.
Weekday(Z) == (Z + 1) % 7

\* The 'weekday N' modifier: forward to the next day whose weekday is N,
\* unchanged when the day already has that weekday.
WeekdayModifier(Z, n) ==
    LET w == Weekday(Z)
        w2 == IF w > n THEN w - 7 ELSE w
    IN  Z + (n - w2)

\* date(D, 'weekday 0', '-6 days'): NULL when D does not parse; an overflowing
\* day is carried into the next month (02-30 is read as 03-02).
SqlWeekStart(s) ==
    IF ~ParsesAsDate(s) THEN None
    ELSE Some(ComputeYMD(WeekdayModifier(ComputeJD(YearOf(s), MonthOf(s), DayOf(s)), 0) - 6))


(***************************************************************************)
(* The Gregorian calendar: datetime.strptime validates dates with it and   *)
(* the claims are stated with it.                                          *)
(***************************************************************************)
IsLeap(y) == (y % 4 = 0 /\ y % 100 # 0) \/ y % 400 = 0
DaysInMonth(y, m) ==
    IF m = 2 THEN (IF IsLeap(y) THEN 29 ELSE 28)
    ELSE IF m \in {4, 6, 9, 11} THEN 30 ELSE 31
IsValidDate(s) ==
    /\ s > 0
    /\ MonthOf(s) \in 1..12
    /\ DayOf(s) \in 1..DaysInMonth(YearOf(s), MonthOf(s))

\* Days since 0001-01-01 (proleptic Gregorian), computed without Julian day numbers.
DaysBeforeYear(y) == (y - 1) * 365 + ((y - 1) \div 4) - ((y - 1) \div 100) + ((y - 1) \div 400)
RECURSIVE DaysBeforeMonth(_, _)
DaysBeforeMonth(y, m) == IF m = 1 THEN 0 ELSE DaysBeforeMonth(y, m - 1) + DaysInMonth(y, m - 1)
Ordinal(s) == DaysBeforeYear(YearOf(s)) + DaysBeforeMonth(YearOf(s), MonthOf(s)) + DayOf(s)
\* 0001-01-01 is a Monday: ordinal 1 -> Monday, ordinal 7 -> Sunday.
IsSunday(s) == Ordinal(s) % 7 = 0
IsMonday(s) == Ordinal(s) % 7 = 1

(***************************************************************************)
(* The tables.  Schema: migrate_csv.py (activities), migrate_mistakes.py   *)
(* (mistakes); both have id INTEGER PRIMARY KEY AUTOINCREMENT.             *)
(***************************************************************************)

SetMax(S) == IF S = {} THEN 0 ELSE LET x == CHOOSE x \in S : \A y \in S : y <= x IN x

\* A plain INTEGER PRIMARY KEY: one more than the largest rowid now in the table.
NextRowIdNoAutoincrement(rows, seq) == SetMax({r.id : r \in rows}) + 1
\* AUTOINCREMENT: one more than the largest rowid the table has ever held,
\* which sqlite_sequence remembers across deletes.
NextRowId(rows, seq) ==
    LET cur == SetMax({r.id : r \in rows})
    IN  (IF seq > cur THEN seq ELSE cur) + 1

\* SELECT * FROM t WHERE id = ?  followed by cursor.fetchone(): a row or None.
SelectById(rows, id) ==
    IF \E r \in rows : r.id = id THEN Some(CHOOSE r \in rows : r.id = id) ELSE None

\* DELETE FROM t WHERE id = ?  : the table afterwards.
DeleteWhereIdUpTo(rows, id) == {r \in rows : r.id > id}
DeleteWhereId(rows, id) == {r \in rows : r.id # id}
\* cursor.rowcount: the number of rows the statement removed.
RowCount(before, after) == Cardinality(before \ after)

\* INSERT INTO t (...) VALUES (...): the id is assigned, the columns are the payload's.
InsertRow(rows, seq, payload) == [id |-> NextRowId(rows, seq)] @@ payload

\* ORDER BY date DESC, id DESC: TRUE when row a is listed before row b.
RowBeforeIdAsc(a, b) == a.date > b.date \/ (a.date = b.date /\ a.id < b.id)
RowBefore(a, b) == a.date > b.date \/ (a.date = b.date /\ a.id > b.id)

RECURSIVE OrderByDateDescIdDesc(_)
OrderByDateDescIdDesc(rows) ==
    IF rows = {} THEN <<>>
    ELSE LET first == CHOOSE r \in rows : \A q \in rows \ {r} : RowBefore(r, q)
         IN  <<first>> \o OrderByDateDescIdDesc(rows \ {first})

\* LIMIT ? OFFSET ? : a negative LIMIT is no limit, a negative OFFSET is 0.
LimitOffset(s, limit, offset) ==
    LET off == IF offset < 0 THEN 0 ELSE offset
        last == IF limit < 0 \/ off + limit > Len(s) THEN Len(s) ELSE off + limit
    IN  SubSeq(s, off + 1, last)


(***************************************************************************)
(* GET /activities: the WHERE clause is composed from the parameters that  *)
(* are truthy in Python: neither None nor the empty string.                *)
(***************************************************************************)
EmptyDateStr == 0

TruthyStr(o) == ~IsNone(o) /\ Val(o) # ""
TruthyDate(o) == ~IsNone(o) /\ Val(o) # EmptyDateStr

\* query += " AND ..." ; params.append(...): the list of appended predicates.
BuildQuery(category, start_date, end_date) ==
    (IF TruthyStr(category) THEN << <<"category =", Val(category)>> >> ELSE <<>>)
    \o (IF TruthyDate(start_date) THEN << <<"date >=", Val(start_date)>> >> ELSE <<>>)
    \o (IF TruthyDate(end_date) THEN << <<"date <=", Val(end_date)>> >> ELSE <<>>)

\* One appended predicate on one row.
EvalClause(row, clause) ==
    CASE clause[1] = "category =" -> row.category = clause[2]
      [] clause[1] = "date >="    -> row.date >= clause[2]
      [] clause[1] = "date <="    -> row.date <= clause[2]

\* WHERE 1=1 AND c1 AND c2 ...
RECURSIVE Where(_, _)
Where(row, query) ==
    IF query = <<>> THEN TRUE
    ELSE EvalClause(row, Head(query)) /\ Where(row, Tail(query))

\* SELECT COUNT(*) FROM t WHERE ...
CountQuery(db, query) == Cardinality({r \in db : Where(r, query)})

\* SELECT * FROM t WHERE ... ORDER BY date DESC, id DESC LIMIT ? OFFSET ?
PageQuery(db, query, limit, offset) ==
    LimitOffset(OrderByDateDescIdDesc({r \in db : Where(r, query)}), limit, offset)

\* The returned dict of get_activities / get_mistakes.
ListBodyPageCount(rows, total_count, limit, offset) ==
    [rows |-> rows, total_count |-> Len(rows), limit |-> limit, offset |-> offset]
ListBody(rows, total_count, limit, offset) ==
    [rows |-> rows, total_count |-> total_count, limit |-> limit, offset |-> offset]

(***************************************************************************)
(* GET /mistakes/stats                                                     *)
(***************************************************************************)
\* SELECT col, COUNT(*) FROM mistakes WHERE col IS NOT NULL GROUP BY col
GroupCountWithNull(db, col) ==
    {[key |-> IF IsNone(k) THEN "unknown" ELSE Val(k),
      count |-> Cardinality({r \in db : r[col] = k})] : k \in {r[col] : r \in db}}
GroupCountNotNull(db, col) ==
    LET kept == {r \in db : ~IsNone(r[col])}
    IN  {[key |-> Val(k), count |-> Cardinality({r \in kept : r[col] = k})] :
            k \in {r[col] : r \in kept}}

(***************************************************************************)
(* GET /stats/summary: the five queries and the code between them.         *)
(***************************************************************************)
WeeksLimit == 12

\* SQLite's ordering of a nullable column: NULL sorts below every value.
SqlLess(a, b) ==
    \/ IsNone(a) /\ ~IsNone(b)
    \/ ~IsNone(a) /\ ~IsNone(b) /\ Val(a) < Val(b)

\* ORDER BY week_start DESC over a set of distinct values.
RECURSIVE OrderDesc(_)
OrderDesc(S) ==
    IF S = {} THEN <<>>
    ELSE LET top == CHOOSE x \in S : \A y \in S \ {x} : SqlLess(y, x)
         IN  <<top>> \o OrderDesc(S \ {top})

\* list.reverse()
Reverse(s) == [i \in 1..Len(s) |-> s[Len(s) + 1 - i]]

\* SUM(minutes) over a non-empty group of rows.
RECURSIVE SumMinutes(_)
SumMinutes(rows) ==
    IF rows = {} THEN 0
    ELSE LET r == CHOOSE r \in rows : TRUE IN r.minutes + SumMinutes(rows \ {r})

\* SELECT category, SUM(minutes) FROM activities GROUP BY category
CategoryDistribution(db) ==
    {[category |-> c, total_minutes |-> SumMinutes({r \in db : r.category = c})] :
        c \in {r.category : r \in db}}

\* SELECT DISTINCT week_start ... ORDER BY week_start DESC LIMIT 12
WeeksQuery(db) == LimitOffset(OrderDesc({SqlWeekStart(r.date) : r \in db}), WeeksLimit, 0)

\* The rows the third query groups for one week: a NULL week_start is never IN (...).
WeekRows(db, weeks, week) ==
    {r \in db : /\ ~IsNone(SqlWeekStart(r.date))
                /\ \E i \in 1..Len(weeks) : ~IsNone(weeks[i]) /\ weeks[i] = SqlWeekStart(r.date)
                /\ SqlWeekStart(r.date) = week}

\* data_map[week]: {'week_start': week}, then data_map[week][cat] = mins for each
\* (week, category) group; a category named "week_start" overwrites the first key.
DataMapRow(db, weeks, week) ==
    LET rows == WeekRows(db, weeks, week)
        cats == {r.category : r \in rows}
    IN  [k \in {"week_start"} \cup cats |->
            IF k \in cats THEN Some(SumMinutes({r \in rows : r.category = k})) ELSE week]

\* weekly_data = list(data_map.values()), over the table the third query reads.
WeeklyData(db, weeks) == [i \in 1..Len(weeks) |-> DataMapRow(db, weeks, weeks[i])]

\* date(MAX(date), 'weekday 0', '-6 days'): NULL on an empty table.
CurrentWeekStart(db) ==
    IF db = {} THEN None ELSE SqlWeekStart(SetMax({r.date : r \in db}))

\* SELECT SUM(minutes) ... WHERE week_start = ? ; "row[0] if row and row[0] else 0".
CurrentWeekMinutes(db, current_week_start) ==
    SumMinutes({r \in db : SqlWeekStart(r.date) = current_week_start})

\* round(minutes / 60, 2), in hundredths of an hour.
RoundHours(minutes) == (10 * minutes + 3) \div 6

\* The returned dict of get_summary.
SummaryBody(category_data, weekly_data, current_week_minutes, current_week_start) ==
    [category_distribution |-> category_data,
     weekly_progress |-> weekly_data,
     current_week_total_hours |-> RoundHours(current_week_minutes),
     current_week_start |-> current_week_start]

(***************************************************************************)
(* The import scripts: the CSV rows that survive pandas and strptime.      *)
(***************************************************************************)
\* datetime.strptime(s, "%d/%m/%Y").date().isoformat(), None when it raises.
ParseDate(s) ==
    LET d == s \div 1000000
        m == (s \div 10000) % 100
        y == s % 10000
    IN  IF y >= 1 /\ m \in 1..12 /\ d >= 1 /\ d <= DaysInMonth(y, m)
        THEN Some(y * 10000 + m * 100 + d) ELSE None

\* df.dropna(subset=['Date']); df['date'].apply(parse_date); df.dropna(subset=['date'])
RECURSIVE DropNa(_)
DropNa(csv) ==
    IF csv = <<>> THEN <<>>
    ELSE LET row == Head(csv)
             date == IF IsNone(row.date) THEN None ELSE ParseDate(Val(row.date))
         IN  (IF IsNone(date) THEN <<>> ELSE << [row EXCEPT !.date = Val(date)] >>)
             \o DropNa(Tail(csv))

\* The tuple bound to the INSERT of migrate_csv.py; int(NaN) raises and the row is skipped.
ActivityValues(row) ==
    IF IsNone(row.week) \/ IsNone(row.minutes) THEN None
    ELSE Some([date |-> row.date, week |-> Val(row.week), category |-> row.category,
               minutes |-> Val(row.minutes), details |-> row.details])

\* The tuple bound to the INSERT of migrate_mistakes.py; clean_val keeps NaN as NULL.
MistakeValues(row) ==
    Some([date |-> row.date, result |-> row.result, mistake_category |-> row.mistake_category])

(***************************************************************************)
(* Connections and requests.                                               *)
(***************************************************************************)
\* The connections that can be open at once.
Conns == {1, 2}
\* The number of requests (and script runs) of a run.
MaxRequests == 3
\* The rows an earlier import has left in activities (SpecSummary).
PreloadWeeks == 11

Idle ==
    [op |-> "none", arg |-> None, pc |-> "idle", shared |-> FALSE, lastrowid |-> 0,
     rowcount |-> 0, local |-> <<>>, status |-> 0, error |-> "", body |-> None,
     alone |-> FALSE, steady |-> FALSE, pending_lock |-> FALSE]

\* A request as FastAPI hands it to its handler, with a fresh connection.
\* History: alone - no other request has been in flight since this one started;
\* steady - no commit has changed a table since this one started.
NewRequest(r, alone) ==
    [Idle EXCEPT !.op = r.op, !.arg = r.arg, !.pc = "start", !.alone = alone, !.steady = TRUE]

InFlight(r) == r.pc \notin {"idle", "done"}

\* An exception leaves the handler.  The connection is still open, and keeps the
\* locks it holds, until get_db_conn's finally closes it.
Raise(r, status, error) ==
    [r EXCEPT !.pc = "raised", !.status = status, !.error = error]
\* db.commit() raises "database is locked": SQLite keeps the connection's PENDING
\* lock, which admits no new reader, until the connection is closed.
CommitRaise(r, status) ==
    [Raise(r, status, "database is locked") EXCEPT !.pending_lock = TRUE]
\* return body (the result set has been fetched); the connection is still open.
Return(r, body) ==
    [r EXCEPT !.pc = "returned", !.shared = FALSE, !.status = 200, !.body = Some(body)]

\* Another connection holds a shared lock: a SELECT executed and not yet fetched.
OtherReader(i) == \E j \in Conns \ {i} : reqs[j].shared

\* Another connection holds a PENDING lock: its commit has failed and it is not
\* closed yet.
OtherPending(i) == \E j \in Conns \ {i} : reqs[j].pending_lock

\* cursor.execute(SELECT ...) takes the request of connection i to r, or raises
\* when another connection has kept a PENDING lock past the timeout.
Execute(i, r) ==
    IF OtherPending(i) THEN Raise(reqs[i], 500, "database is locked") ELSE r

\* The requests as they stand after connection i has committed a change.
Disturbed(i) ==
    [j \in Conns |-> IF j = i THEN reqs[j] ELSE [reqs[j] EXCEPT !.steady = FALSE]]

Rows(t) == IF t = "activities" THEN activities ELSE mistakes
SeqOf(t) == IF t = "activities" THEN act_seq ELSE mis_seq
IssuedOf(t) == IF t = "activities" THEN act_issued ELSE mis_issued

\* db.commit() of a transaction on table t: the table and its sqlite_sequence entry.
Commit(t, rows, seq) ==
    IF t = "activities"
    THEN /\ activities' = rows /\ act_seq' = seq
         /\ act_issued' = act_issued \cup {r.id : r \in rows}
         /\ UNCHANGED <<mistakes, mis_seq, mis_issued>>
    ELSE /\ mistakes' = rows /\ mis_seq' = seq
         /\ mis_issued' = mis_issued \cup {r.id : r \in rows}
         /\ UNCHANGED <<activities, act_seq, act_issued>>

\* conn.close(), in get_db_conn's finally after the handler has returned or
\* raised: uncommitted work is rolled back and every lock of the connection released.
Close(i) ==
    /\ reqs[i].pc \in {"returned", "raised"}
    /\ reqs' = [reqs EXCEPT ![i].pc = "done", ![i].shared = FALSE,
                            ![i].pending_lock = FALSE]
    /\ db_lock' = IF db_lock = i THEN 0 ELSE db_lock
    /\ UNCHANGED <<tables, started, wk>>

\* A request reaches its handler.
Start(i, r) ==
    /\ ~InFlight(reqs[i])
    /\ started < MaxRequests
    /\ started' = started + 1
    /\ reqs' = [j \in Conns |->
                  IF j = i THEN NewRequest(r, \A k \in Conns \ {i} : ~InFlight(reqs[k]))
                  ELSE IF InFlight(reqs[j]) THEN [reqs[j] EXCEPT !.alone = FALSE]
                  ELSE reqs[j]]
    /\ UNCHANGED <<tables, db_lock, wk>>

(***************************************************************************)
(* POST /activities, POST /mistakes                                        *)
(***************************************************************************)
\* cursor.execute(INSERT ...): takes the write lock, or raises when another
\* connection has kept it past the timeout.  The row is in this connection's
\* transaction only.
Insert(i, t) ==
    /\ reqs[i].pc = "start"
    /\ IF db_lock # 0
       THEN /\ reqs' = [reqs EXCEPT ![i] = Raise(@, 500, "database is locked")]
            /\ UNCHANGED db_lock
       ELSE /\ db_lock' = i
            /\ LET row == InsertRow(Rows(t), SeqOf(t), reqs[i].arg)
               IN  reqs' = [reqs EXCEPT ![i].pc = "inserted", ![i].lastrowid = row.id,
                                        ![i].local = [row |-> Some(row)]]
    /\ UNCHANGED <<tables, started, wk>>

\* db.commit(): the row becomes visible and the lock is released, or the commit
\* raises because a reader has kept its shared lock past the timeout; the INSERT
\* stays uncommitted and the lock held until the connection closes.
CommitInsert(i, t) ==
    /\ reqs[i].pc = "inserted"
    /\ IF OtherReader(i)
       THEN /\ reqs' = [reqs EXCEPT ![i] = CommitRaise(@, 500)]
            /\ UNCHANGED <<tables, db_lock>>
       ELSE /\ Commit(t, Rows(t) \cup {Val(reqs[i].local.row)}, reqs[i].lastrowid)
            /\ db_lock' = 0
            /\ reqs' = [Disturbed(i) EXCEPT ![i].pc = "committed"]
    /\ UNCHANGED <<started, wk>>

\* cursor.execute("SELECT * FROM t WHERE id = ?", (cursor.lastrowid,))
ReadBack(i, t) ==
    /\ reqs[i].pc = "committed"
    /\ LET row == SelectById(Rows(t), reqs[i].lastrowid)
       IN  reqs' = [reqs EXCEPT ![i] =
                       Execute(i, [@ EXCEPT !.pc = "selected", !.shared = ~IsNone(row),
                                            !.local = [row |-> row]])]
    /\ UNCHANGED <<tables, db_lock, started, wk>>

\* row = cursor.fetchone(); return dict(row).  dict(None) raises TypeError.
ReturnRow(i) ==
    /\ reqs[i].pc = "selected"
    /\ reqs' = [reqs EXCEPT ![i] = IF IsNone(@.local.row) THEN Raise(@, 500, "TypeError")
                                   ELSE Return(@, Val(@.local.row))]
    /\ UNCHANGED <<tables, db_lock, started, wk>>

CreateActivityInsert(i) == reqs[i].op = "create_activity" /\ Insert(i, "activities")
CreateActivityCommit(i) == reqs[i].op = "create_activity" /\ CommitInsert(i, "activities")
CreateActivityReadBack(i) == reqs[i].op = "create_activity" /\ ReadBack(i, "activities")
CreateActivityReturn(i) == reqs[i].op = "create_activity" /\ ReturnRow(i)

CreateMistakeInsert(i) == reqs[i].op = "create_mistake" /\ Insert(i, "mistakes")
CreateMistakeCommit(i) == reqs[i].op = "create_mistake" /\ CommitInsert(i, "mistakes")
CreateMistakeReadBack(i) == reqs[i].op = "create_mistake" /\ ReadBack(i, "mistakes")
CreateMistakeReturn(i) == reqs[i].op = "create_mistake" /\ ReturnRow(i)

(***************************************************************************)
(* DELETE /activities/{id}, DELETE /mistakes/{id}                          *)
(***************************************************************************)
\* cursor.execute(DELETE ...): takes the write lock, or raises when another
\* connection has kept it past the timeout.
Delete(i, t) ==
    /\ reqs[i].pc = "start"
    /\ IF db_lock # 0
       THEN /\ reqs' = [reqs EXCEPT ![i] = Raise(@, 500, "database is locked")]
            /\ UNCHANGED db_lock
       ELSE /\ db_lock' = i
            /\ reqs' = [reqs EXCEPT ![i].pc = "executed",
                                    ![i].rowcount = RowCount(Rows(t),
                                                       DeleteWhereId(Rows(t), reqs[i].arg))]
    /\ UNCHANGED <<tables, started, wk>>

\* 404 when rowcount is 0 (nothing is committed; the write lock stays until the
\* connection closes); else db.commit(), which raises when a reader has kept its
\* shared lock past the timeout: the DELETE stays uncommitted and the lock held
\* until the connection closes.
DeleteFinish(i, t, notfound, deleted) ==
    /\ reqs[i].pc = "executed"
    /\ IF reqs[i].rowcount = 0
       THEN /\ reqs' = [reqs EXCEPT ![i] = Raise(@, 404, notfound)]
            /\ UNCHANGED <<tables, db_lock>>
       ELSE IF OtherReader(i)
       THEN /\ reqs' = [reqs EXCEPT ![i] = CommitRaise(@, 500)]
            /\ UNCHANGED <<tables, db_lock>>
       ELSE /\ Commit(t, DeleteWhereId(Rows(t), reqs[i].arg), SeqOf(t))
            /\ db_lock' = 0
            /\ reqs' = [Disturbed(i) EXCEPT ![i] = Return(@, deleted)]
    /\ UNCHANGED <<started, wk>>

DeleteActivityExecute(i) == reqs[i].op = "delete_activity" /\ Delete(i, "activities")
DeleteActivityFinish(i) ==
    /\ reqs[i].op = "delete_activity"
    /\ DeleteFinish(i, "activities", "Activity not found", "Activity deleted")

DeleteMistakeExecute(i) == reqs[i].op = "delete_mistake" /\ Delete(i, "mistakes")
DeleteMistakeFinish(i) ==
    /\ reqs[i].op = "delete_mistake"
    /\ DeleteFinish(i, "mistakes", "Mistake not found", "Mistake deleted")

(***************************************************************************)
(* GET /activities, GET /mistakes                                          *)
(***************************************************************************)
\* cursor.execute("SELECT COUNT(*) ..."): the one result row holds a shared lock.
Count(i, t, query) ==
    /\ reqs[i].pc = "start"
    /\ reqs' = [reqs EXCEPT ![i] =
                   Execute(i, [@ EXCEPT !.pc = "count_executed", !.shared = TRUE,
                                        !.local = [total_count |-> CountQuery(Rows(t), query)]])]
    /\ UNCHANGED <<tables, db_lock, started, wk>>

\* total_count = cursor.fetchone()[0]
CountFetch(i) ==
    /\ reqs[i].pc = "count_executed"
    /\ reqs' = [reqs EXCEPT ![i].pc = "counted", ![i].shared = FALSE]
    /\ UNCHANGED <<tables, db_lock, started, wk>>

\* cursor.execute("SELECT * ... LIMIT ? OFFSET ?"): a shared lock when it finds a row.
Page(i, t, query) ==
    /\ reqs[i].pc = "counted"
    /\ LET rows == PageQuery(Rows(t), query, reqs[i].arg.limit, reqs[i].arg.offset)
       IN  reqs' = [reqs EXCEPT ![i] =
                       Execute(i, [@ EXCEPT !.pc = "page_executed", !.shared = (rows # <<>>),
                                            !.local = [total_count |-> reqs[i].local.total_count,
                                                       rows |-> rows]])]
    /\ UNCHANGED <<tables, db_lock, started, wk>>

\* rows = cursor.fetchall(); return {...}
ListReturn(i) ==
    /\ reqs[i].pc = "page_executed"
    /\ reqs' = [reqs EXCEPT ![i] = Return(@, ListBody(@.local.rows, @.local.total_count,
                                                      @.arg.limit, @.arg.offset))]
    /\ UNCHANGED <<tables, db_lock, started, wk>>

\* The query string and params get_activities builds from its parameters.
ActivitiesQuery(i) ==
    BuildQuery(reqs[i].arg.category, reqs[i].arg.start_date, reqs[i].arg.end_date)

GetActivitiesCount(i) ==
    reqs[i].op = "get_activities" /\ Count(i, "activities", ActivitiesQuery(i))
GetActivitiesCountFetch(i) == reqs[i].op = "get_activities" /\ CountFetch(i)
GetActivitiesPage(i) ==
    reqs[i].op = "get_activities" /\ Page(i, "activities", ActivitiesQuery(i))
GetActivitiesReturn(i) == reqs[i].op = "get_activities" /\ ListReturn(i)

GetMistakesCount(i) == reqs[i].op = "get_mistakes" /\ Count(i, "mistakes", <<>>)
GetMistakesCountFetch(i) == reqs[i].op = "get_mistakes" /\ CountFetch(i)
GetMistakesPage(i) == reqs[i].op = "get_mistakes" /\ Page(i, "mistakes", <<>>)
GetMistakesReturn(i) == reqs[i].op = "get_mistakes" /\ ListReturn(i)

(***************************************************************************)
(* GET /mistakes/stats: two GROUP BY queries, each fetched before the next.*)
(***************************************************************************)
GetMistakesStatsCategory(i) ==
    /\ reqs[i].op = "get_mistakes_stats" /\ reqs[i].pc = "start"
    /\ LET category_data == GroupCountNotNull(mistakes, "mistake_category")
       IN  reqs' = [reqs EXCEPT ![i] =
                       Execute(i, [@ EXCEPT !.pc = "category_executed",
                                            !.shared = (category_data # {}),
                                            !.local = [category_data |-> category_data]])]
    /\ UNCHANGED <<tables, db_lock, started, wk>>

GetMistakesStatsCategoryFetch(i) ==
    /\ reqs[i].op = "get_mistakes_stats" /\ reqs[i].pc = "category_executed"
    /\ reqs' = [reqs EXCEPT ![i].pc = "category_fetched", ![i].shared = FALSE]
    /\ UNCHANGED <<tables, db_lock, started, wk>>

GetMistakesStatsResult(i) ==
    /\ reqs[i].op = "get_mistakes_stats" /\ reqs[i].pc = "category_fetched"
    /\ LET result_data == GroupCountNotNull(mistakes, "result")
       IN  reqs' = [reqs EXCEPT ![i] =
                       Execute(i, [@ EXCEPT !.pc = "result_executed",
                                            !.shared = (result_data # {}),
                                            !.local = [category_data |-> reqs[i].local.category_data,
                                                       result_data |-> result_data]])]
    /\ UNCHANGED <<tables, db_lock, started, wk>>

GetMistakesStatsReturn(i) ==
    /\ reqs[i].op = "get_mistakes_stats" /\ reqs[i].pc = "result_executed"
    /\ reqs' = [reqs EXCEPT ![i] =
                   Return(@, [mistake_distribution |-> @.local.category_data,
                              result_distribution |-> @.local.result_data])]
    /\ UNCHANGED <<tables, db_lock, started, wk>>

(***************************************************************************)
(* GET /stats/summary: five queries, each fetched before the next.         *)
(***************************************************************************)
\* SELECT category, SUM(minutes) ... GROUP BY category
GetSummaryCategory(i) ==
    /\ reqs[i].op = "get_summary" /\ reqs[i].pc = "start"
    /\ LET category_data == CategoryDistribution(activities)
       IN  reqs' = [reqs EXCEPT ![i] =
                       Execute(i, [@ EXCEPT !.pc = "category_executed",
                                            !.shared = (category_data # {}),
                                            !.local = [category_data |-> category_data]])]
    /\ UNCHANGED <<tables, db_lock, started, wk>>

GetSummaryCategoryFetch(i) ==
    /\ reqs[i].op = "get_summary" /\ reqs[i].pc = "category_executed"
    /\ reqs' = [reqs EXCEPT ![i].pc = "category_fetched", ![i].shared = FALSE]
    /\ UNCHANGED <<tables, db_lock, started, wk>>

\* SELECT DISTINCT date(date, 'weekday 0', '-6 days') ... LIMIT 12
GetSummaryWeeks(i) ==
    /\ reqs[i].op = "get_summary" /\ reqs[i].pc = "category_fetched"
    /\ LET weeks_rows == WeeksQuery(activities)
       IN  reqs' = [reqs EXCEPT ![i] =
                       Execute(i, [@ EXCEPT !.pc = "weeks_executed",
                                            !.shared = (weeks_rows # <<>>),
                                            !.local = [category_data |-> reqs[i].local.category_data,
                                                       weeks |-> weeks_rows]])]
    /\ UNCHANGED <<tables, db_lock, started, wk>>

\* weeks_rows = cursor.fetchall(); weeks.reverse(); weekly_data = []; if weeks: ...
GetSummaryWeeksFetch(i) ==
    /\ reqs[i].op = "get_summary" /\ reqs[i].pc = "weeks_executed"
    /\ LET weeks == Reverse(reqs[i].local.weeks)
       IN  reqs' = [reqs EXCEPT ![i].pc = IF weeks # <<>> THEN "weeks_fetched"
                                          ELSE "weekly_fetched",
                                ![i].shared = FALSE,
                                ![i].local = [category_data |-> reqs[i].local.category_data,
                                              weeks |-> weeks, weekly_data |-> <<>>]]
    /\ UNCHANGED <<tables, db_lock, started, wk>>

\* SELECT week_start, category, SUM(minutes) ... WHERE week_start IN (weeks) GROUP BY ...
GetSummaryWeekly(i) ==
    /\ reqs[i].op = "get_summary" /\ reqs[i].pc = "weeks_fetched"
    /\ LET weeks == reqs[i].local.weeks
       IN  reqs' = [reqs EXCEPT ![i] =
                       Execute(i, [@ EXCEPT !.pc = "weekly_executed",
                                            !.shared = (\E k \in 1..Len(weeks) :
                                                  WeekRows(activities, weeks, weeks[k]) # {}),
                                            !.local = [category_data |-> reqs[i].local.category_data,
                                                       weeks |-> weeks,
                                                       weekly_data |-> WeeklyData(activities, weeks)]])]
    /\ UNCHANGED <<tables, db_lock, started, wk>>

\* rows = cursor.fetchall(); data_map ...; weekly_data = list(data_map.values())
GetSummaryWeeklyFetch(i) ==
    /\ reqs[i].op = "get_summary" /\ reqs[i].pc = "weekly_executed"
    /\ reqs' = [reqs EXCEPT ![i].pc = "weekly_fetched", ![i].shared = FALSE]
    /\ UNCHANGED <<tables, db_lock, started, wk>>

\* SELECT date(MAX(date), 'weekday 0', '-6 days') FROM activities: always one row.
GetSummaryMax(i) ==
    /\ reqs[i].op = "get_summary" /\ reqs[i].pc = "weekly_fetched"
    /\ reqs' = [reqs EXCEPT ![i] =
                   Execute(i, [@ EXCEPT !.pc = "max_executed", !.shared = TRUE,
                                        !.local = [category_data |-> reqs[i].local.category_data,
                                                   weekly_data |-> reqs[i].local.weekly_data,
                                                   current_week_start |-> CurrentWeekStart(activities)]])]
    /\ UNCHANGED <<tables, db_lock, started, wk>>

\* current_week_start_row = cursor.fetchone(); current_week_minutes = 0;
\* without a current_week_start the handler returns here.
GetSummaryMaxFetch(i) ==
    /\ reqs[i].op = "get_summary" /\ reqs[i].pc = "max_executed"
    /\ reqs' = [reqs EXCEPT ![i] =
                   IF IsNone(@.local.current_week_start)
                   THEN Return(@, SummaryBody(@.local.category_data, @.local.weekly_data,
                                              0, @.local.current_week_start))
                   ELSE [@ EXCEPT !.pc = "max_fetched", !.shared = FALSE]]
    /\ UNCHANGED <<tables, db_lock, started, wk>>

\* SELECT SUM(minutes) ... WHERE date(date, 'weekday 0', '-6 days') = ? : always one row.
GetSummaryCurrent(i) ==
    /\ reqs[i].op = "get_summary" /\ reqs[i].pc = "max_fetched"
    /\ reqs' = [reqs EXCEPT ![i] =
                   Execute(i, [@ EXCEPT !.pc = "current_executed", !.shared = TRUE,
                                        !.local = [category_data |-> reqs[i].local.category_data,
                                                   weekly_data |-> reqs[i].local.weekly_data,
                                                   current_week_start |-> reqs[i].local.current_week_start,
                                                   current_week_minutes |->
                                                       CurrentWeekMinutes(activities,
                                                           reqs[i].local.current_week_start)]])]
    /\ UNCHANGED <<tables, db_lock, started, wk>>

\* row = cursor.fetchone(); return {...}
GetSummaryReturn(i) ==
    /\ reqs[i].op = "get_summary" /\ reqs[i].pc = "current_executed"
    /\ reqs' = [reqs EXCEPT ![i] =
                   Return(@, SummaryBody(@.local.category_data, @.local.weekly_data,
                                         @.local.current_week_minutes,
                                         @.local.current_week_start))]
    /\ UNCHANGED <<tables, db_lock, started, wk>>

(***************************************************************************)
(* migrate() of migrate_csv.py and of migrate_mistakes.py: a process with  *)
(* a connection of its own.  Every INSERT of the loop is inside try/except:*)
(* a row whose INSERT raises is skipped.  One commit ends the loop.        *)
(***************************************************************************)
\* pd.read_csv ... dropna: the rows the loop will go through; sqlite3.connect;
\* CREATE TABLE IF NOT EXISTS, which reads the schema and, outside any try, raises
\* and ends the script when another connection has kept a PENDING lock past the
\* timeout.
MigrateRead(i) ==
    /\ reqs[i].pc = "start"
    /\ reqs' = [reqs EXCEPT ![i] =
                   IF OtherPending(i) THEN Raise(@, 0, "database is locked")
                   ELSE [@ EXCEPT !.pc = "loop",
                                  !.local = [df |-> DropNa(reqs[i].arg), pending |-> {}]]]
    /\ UNCHANGED <<tables, db_lock, started, wk>>

\* One iteration of "for index, row in df.iterrows()".
MigrateInsert(i, t, values) ==
    /\ reqs[i].pc = "loop"
    /\ reqs[i].local.df # <<>>
    /\ LET df == reqs[i].local.df
           pending == reqs[i].local.pending
       IN  IF IsNone(values) \/ db_lock \notin {0, i}
           THEN /\ reqs' = [reqs EXCEPT ![i].local = [df |-> Tail(df), pending |-> pending]]
                /\ UNCHANGED db_lock
           ELSE /\ db_lock' = i
                /\ LET row == InsertRow(Rows(t) \cup pending, SeqOf(t), Val(values))
                   IN  reqs' = [reqs EXCEPT ![i].lastrowid = row.id,
                                            ![i].local = [df |-> Tail(df),
                                                          pending |-> pending \cup {row}]]
    /\ UNCHANGED <<tables, started, wk>>

\* conn.commit().  A commit that raises ends the script; the INSERTs stay
\* uncommitted and the lock held until the connection closes.
MigrateCommit(i, t) ==
    /\ reqs[i].pc = "loop"
    /\ reqs[i].local.df = <<>>
    /\ LET pending == reqs[i].local.pending
       IN  IF pending = {}
           THEN /\ reqs' = [reqs EXCEPT ![i].pc = "returned"]
                /\ UNCHANGED <<tables, db_lock>>
           ELSE IF OtherReader(i)
           THEN /\ reqs' = [reqs EXCEPT ![i] = CommitRaise(@, 0)]
                /\ UNCHANGED <<tables, db_lock>>
           ELSE /\ Commit(t, Rows(t) \cup pending, reqs[i].lastrowid)
                /\ db_lock' = 0
                /\ reqs' = [Disturbed(i) EXCEPT ![i].pc = "returned"]
    /\ UNCHANGED <<started, wk>>

MigrateCsvRead(i) == reqs[i].op = "migrate_csv" /\ MigrateRead(i)
MigrateCsvInsert(i) ==
    /\ reqs[i].op = "migrate_csv" /\ reqs[i].pc = "loop" /\ reqs[i].local.df # <<>>
    /\ MigrateInsert(i, "activities", ActivityValues(Head(reqs[i].local.df)))
MigrateCsvCommit(i) == reqs[i].op = "migrate_csv" /\ MigrateCommit(i, "activities")

MigrateMistakesRead(i) == reqs[i].op = "migrate_mistakes" /\ MigrateRead(i)
MigrateMistakesInsert(i) ==
    /\ reqs[i].op = "migrate_mistakes" /\ reqs[i].pc = "loop" /\ reqs[i].local.df # <<>>
    /\ MigrateInsert(i, "mistakes", MistakeValues(Head(reqs[i].local.df)))
MigrateMistakesCommit(i) == reqs[i].op = "migrate_mistakes" /\ MigrateCommit(i, "mistakes")

(***************************************************************************)
(* Inputs.  Every payload is well typed: ActivityBase / MistakeBase        *)
(* declare field types only, so pydantic rejects nothing else.             *)
(***************************************************************************)
ActivityPayloads ==
    { [date |-> 20260104, week |-> 1, category |-> "Tactics",  minutes |-> 30, details |-> None],
      [date |-> 20260105, week |-> 2, category |-> "Tactics",  minutes |-> 45, details |-> Some("forks")],
      [date |-> 20260110, week |-> 2, category |-> "Openings", minutes |-> 60, details |-> None],
      [date |-> 20260230, week |-> 9, category |-> "Tactics",  minutes |-> -5, details |-> None] }

\* Of MistakeBase's thirteen columns the model carries date, result and
\* mistake_category; the other ten are optional, stored and returned the same way.
MistakePayloads ==
    { [date |-> 20260104, result |-> Some("loss"), mistake_category |-> Some("Tactical")],
      [date |-> 20260105, result |-> None,         mistake_category |-> Some("Opening")],
      [date |-> 20260105, result |-> Some("win"),  mistake_category |-> None] }

\* The activities CSV after read_csv: Date as written ("DD/MM/YYYY" or empty), Week
\* and Minutes (NaN when the cell is empty), Category, Details.  Minutes in the
\* files are not negative.
ActivityCsvFiles ==
    { << [date |-> Some(5012026), week |-> Some(2), category |-> "Tactics",
          minutes |-> Some(45), details |-> None],
         [date |-> Some(5012026), week |-> Some(2), category |-> "Openings",
          minutes |-> Some(0), details |-> Some("e4")] >>,
      << [date |-> Some(30022026), week |-> Some(9), category |-> "Tactics",
          minutes |-> Some(20), details |-> None],
         [date |-> Some(4012026), week |-> Some(1), category |-> "Tactics",
          minutes |-> None, details |-> None],
         [date |-> Some(10012026), week |-> Some(2), category |-> "Openings",
          minutes |-> Some(60), details |-> None] >> }

\* The mistakes CSV after read_csv and rename.
MistakeCsvFiles ==
    { << [date |-> Some(4012026), result |-> Some("loss"), mistake_category |-> Some("Tactical")],
         [date |-> Some(10012026), result |-> None, mistake_category |-> Some("Tactical")] >>,
      << [date |-> None, result |-> Some("win"), mistake_category |-> Some("Opening")],
         [date |-> Some(31042026), result |-> Some("win"), mistake_category |-> Some("Opening")],
         [date |-> Some(5012026), result |-> Some("win"), mistake_category |-> None] >> }

IdInputs == 1..MaxRequests
LimitInputs == {0, 1, 2}
OffsetInputs == {0, 1}
\* <<category, start_date, end_date>> of GET /activities.
FilterInputs ==
    { <<None, None, None>>,
      <<Some(""), None, None>>,
      <<Some("Tactics"), None, None>>,
      <<None, Some(20260105), None>>,
      <<None, None, Some(20260105)>>,
      <<None, Some(EmptyDateStr), Some(EmptyDateStr)>>,
      <<Some("Openings"), Some(20260104), Some(20260105)>> }

\* A request of one endpoint (or a run of one script) with one of the given arguments.
StartAny(i, op, args) == \E a \in args : Start(i, [op |-> op, arg |-> a])

ListArgs ==
    {[limit |-> l, offset |-> o, category |-> f[1], start_date |-> f[2], end_date |-> f[3]] :
        l \in LimitInputs, o \in OffsetInputs, f \in FilterInputs}
PageArgs == {[limit |-> l, offset |-> o] : l \in LimitInputs, o \in OffsetInputs}

NoWeek == [date |-> EmptyDateStr, week_start |-> None, done |-> FALSE]

(***************************************************************************)
(* Spec: the writers.  Both connections serve creates and deletes of both  *)
(* tables; the imports run on connection 2.                                *)
(***************************************************************************)
\* The database once an import script has created the tables (main.py creates
\* none): both exist and are empty.
Init ==
    /\ activities = {} /\ act_seq = 0 /\ act_issued = {}
    /\ mistakes = {} /\ mis_seq = 0 /\ mis_issued = {}
    /\ reqs = [i \in Conns |-> Idle]
    /\ db_lock = 0
    /\ started = 0
    /\ wk = NoWeek

StartWrite(i) ==
    \/ StartAny(i, "create_activity", ActivityPayloads)
    \/ StartAny(i, "delete_activity", IdInputs)
    \/ StartAny(i, "create_mistake", MistakePayloads)
    \/ StartAny(i, "delete_mistake", IdInputs)
    \/ i = 2 /\ StartAny(i, "migrate_csv", ActivityCsvFiles)
    \/ i = 2 /\ StartAny(i, "migrate_mistakes", MistakeCsvFiles)

Next ==
    \E i \in Conns :
        \/ StartWrite(i) \/ Close(i)
        \/ CreateActivityInsert(i) \/ CreateActivityCommit(i)
        \/ CreateActivityReadBack(i) \/ CreateActivityReturn(i)
        \/ DeleteActivityExecute(i) \/ DeleteActivityFinish(i)
        \/ CreateMistakeInsert(i) \/ CreateMistakeCommit(i)
        \/ CreateMistakeReadBack(i) \/ CreateMistakeReturn(i)
        \/ DeleteMistakeExecute(i) \/ DeleteMistakeFinish(i)
        \/ MigrateCsvRead(i) \/ MigrateCsvInsert(i) \/ MigrateCsvCommit(i)
        \/ MigrateMistakesRead(i) \/ MigrateMistakesInsert(i) \/ MigrateMistakesCommit(i)

Spec == Init /\ [][Next]_vars

(***************************************************************************)
(* SpecList: connection 1 serves the listings, connection 2 the writes.    *)
(***************************************************************************)
\* GET /mistakes takes no filter: for the listings one mistake payload stands for all.
ListedMistakePayloads ==
    {p \in MistakePayloads : ~IsNone(p.result) /\ ~IsNone(p.mistake_category)}

StartList(i) ==
    \/ i = 1 /\ StartAny(i, "get_activities", ListArgs)
    \/ i = 1 /\ StartAny(i, "get_mistakes", PageArgs)
    \/ i = 2 /\ StartAny(i, "create_activity", ActivityPayloads)
    \/ i = 2 /\ StartAny(i, "delete_activity", IdInputs)
    \/ i = 2 /\ StartAny(i, "migrate_csv", ActivityCsvFiles)
    \/ i = 2 /\ StartAny(i, "create_mistake", ListedMistakePayloads)

NextList ==
    \E i \in Conns :
        \/ StartList(i) \/ Close(i)
        \/ GetActivitiesCount(i) \/ GetActivitiesCountFetch(i)
        \/ GetActivitiesPage(i) \/ GetActivitiesReturn(i)
        \/ GetMistakesCount(i) \/ GetMistakesCountFetch(i)
        \/ GetMistakesPage(i) \/ GetMistakesReturn(i)
        \/ CreateActivityInsert(i) \/ CreateActivityCommit(i)
        \/ CreateActivityReadBack(i) \/ CreateActivityReturn(i)
        \/ DeleteActivityExecute(i) \/ DeleteActivityFinish(i)
        \/ MigrateCsvRead(i) \/ MigrateCsvInsert(i) \/ MigrateCsvCommit(i)
        \/ CreateMistakeInsert(i) \/ CreateMistakeCommit(i)
        \/ CreateMistakeReadBack(i) \/ CreateMistakeReturn(i)

SpecList == Init /\ [][NextList]_vars

(***************************************************************************)
(* SpecStats: connection 1 serves the mistake statistics and the mistake   *)
(* listing, connection 2 the writes to mistakes.                           *)
(***************************************************************************)
StartStats(i) ==
    \/ i = 1 /\ StartAny(i, "get_mistakes_stats", {None})
    \/ i = 1 /\ StartAny(i, "get_mistakes", PageArgs)
    \/ i = 2 /\ StartAny(i, "create_mistake", MistakePayloads)
    \/ i = 2 /\ StartAny(i, "delete_mistake", IdInputs)
    \/ i = 2 /\ StartAny(i, "migrate_mistakes", MistakeCsvFiles)

NextStats ==
    \E i \in Conns :
        \/ StartStats(i) \/ Close(i)
        \/ GetMistakesStatsCategory(i) \/ GetMistakesStatsCategoryFetch(i)
        \/ GetMistakesStatsResult(i) \/ GetMistakesStatsReturn(i)
        \/ GetMistakesCount(i) \/ GetMistakesCountFetch(i)
        \/ GetMistakesPage(i) \/ GetMistakesReturn(i)
        \/ CreateMistakeInsert(i) \/ CreateMistakeCommit(i)
        \/ CreateMistakeReadBack(i) \/ CreateMistakeReturn(i)
        \/ DeleteMistakeExecute(i) \/ DeleteMistakeFinish(i)
        \/ MigrateMistakesRead(i) \/ MigrateMistakesInsert(i) \/ MigrateMistakesCommit(i)

SpecStats == Init /\ [][NextStats]_vars

(***************************************************************************)
(* SpecSummary: connection 1 serves GET /stats/summary, connection 2 the   *)
(* writes to activities; the table starts empty or as an import left it.   *)
(***************************************************************************)
\* The table after migrate() has imported n rows, one a week, ids 1..n.
PreloadFirstDay == ComputeJD(2025, 10, 13)
Preload(n) ==
    {[id |-> k, date |-> ComputeYMD(PreloadFirstDay + 7 * (k - 1)), week |-> k,
      category |-> "Tactics", minutes |-> 30, details |-> None] : k \in 1..n}

SummaryPayloads ==
    { [date |-> 20260105, week |-> 2, category |-> "Tactics",    minutes |-> 30, details |-> None],
      [date |-> 20260110, week |-> 2, category |-> "Tactics",    minutes |-> 45, details |-> None],
      [date |-> 20260104, week |-> 1, category |-> "Openings",   minutes |-> 20, details |-> None],
      [date |-> 20261301, week |-> 3, category |-> "Tactics",    minutes |-> 10, details |-> None],
      [date |-> 20260111, week |-> 3, category |-> "week_start", minutes |-> 15, details |-> None] }

InitSummary ==
    /\ \E n \in {0, PreloadWeeks} :
          /\ activities = Preload(n) /\ act_seq = n /\ act_issued = 1..n
    /\ mistakes = {} /\ mis_seq = 0 /\ mis_issued = {}
    /\ reqs = [i \in Conns |-> Idle]
    /\ db_lock = 0
    /\ started = 0
    /\ wk = NoWeek

StartSummary(i) ==
    \/ i = 1 /\ StartAny(i, "get_summary", {None})
    \/ i = 2 /\ StartAny(i, "create_activity", SummaryPayloads)
    \/ i = 2 /\ StartAny(i, "delete_activity", IdInputs)

NextSummary ==
    \E i \in Conns :
        \/ StartSummary(i) \/ Close(i)
        \/ GetSummaryCategory(i) \/ GetSummaryCategoryFetch(i)
        \/ GetSummaryWeeks(i) \/ GetSummaryWeeksFetch(i)
        \/ GetSummaryWeekly(i) \/ GetSummaryWeeklyFetch(i)
        \/ GetSummaryMax(i) \/ GetSummaryMaxFetch(i)
        \/ GetSummaryCurrent(i) \/ GetSummaryReturn(i)
        \/ CreateActivityInsert(i) \/ CreateActivityCommit(i)
        \/ CreateActivityReadBack(i) \/ CreateActivityReturn(i)
        \/ DeleteActivityExecute(i) \/ DeleteActivityFinish(i)

SpecSummary == InitSummary /\ [][NextSummary]_vars

(***************************************************************************)
(* SpecWeek: the week bucket as a function of one date.                    *)
(***************************************************************************)
WeekYears == {2024, 2026}
\* Every string SQLite parses as a date in those years, 02-30 and 04-31 included.
WeekDates == {y * 10000 + m * 100 + d : y \in WeekYears, m \in 1..12, d \in 1..31}

InitWeek ==
    /\ activities = {} /\ act_seq = 0 /\ act_issued = {}
    /\ mistakes = {} /\ mis_seq = 0 /\ mis_issued = {}
    /\ reqs = [i \in Conns |-> Idle]
    /\ db_lock = 0
    /\ started = 0
    /\ wk \in {[date |-> d, week_start |-> None, done |-> FALSE] : d \in WeekDates}

ApplyWeekStart ==
    /\ ~wk.done
    /\ wk' = [date |-> wk.date, week_start |-> SqlWeekStart(wk.date), done |-> TRUE]
    /\ UNCHANGED <<tables, reqs, db_lock, started>>

NextWeek == ApplyWeekStart

SpecWeek == InitWeek /\ [][NextWeek]_vars

(***************************************************************************)
(* The claims.                                                             *)
(***************************************************************************)

\* The handler of connection i's request of endpoint op has returned or raised.
Done(i, op) == reqs[i].op = op /\ reqs[i].pc \in {"returned", "raised", "done"}
\* The step takes the request of connection i from statement a to statement b.
Moves(i, op, a, b) == reqs[i].op = op /\ reqs[i].pc = a /\ reqs'[i].pc = b
\* The handler of connection i's request of endpoint op has returned a body.
Answered(i, op) == Done(i, op) /\ reqs[i].status = 200
\* The step ends the handler of connection i's request: it returns or raises.
Finishes(i, op) ==
    /\ reqs[i].op = op
    /\ reqs[i].pc \notin {"returned", "raised", "done"}
    /\ reqs'[i].pc \in {"returned", "raised"}
\* The step is the return statement of the handler of connection i's request.
Returns(i, op) == Finishes(i, op) /\ reqs'[i].pc = "returned"

\* C1: every stored activity has minutes >= 0 and a date that is a valid calendar
\* date (a create with negative minutes or an invalid date never reaches the store).
C1_StoredActivitiesValid ==
    \A r \in activities : r.minutes >= 0 /\ IsValidDate(r.date)

\* C2: for every valid calendar date D the computed week_start is a Sunday,
\* week_start <= D <= week_start + 6 days, and week_start = D when D is a Sunday.
C2_WeekStartIsSundayOnOrBefore ==
    (wk.done /\ IsValidDate(wk.date)) =>
        /\ ~IsNone(wk.week_start)
        /\ IsSunday(Val(wk.week_start))
        /\ Ordinal(wk.date) - Ordinal(Val(wk.week_start)) \in 0..6
        /\ (IsSunday(wk.date) => Val(wk.week_start) = wk.date)

\* The Sunday-to-Saturday week of a valid date, as a week number.
SundayWeek(s) == Ordinal(s) \div 7

\* C3: from an empty store, after inserting 2026-01-05 (30 min, Tactics) and
\* 2026-01-10 (45 min, Tactics), weekly_progress is exactly the one row
\* {week_start: "2026-01-04", Tactics: 75}; in general the activities of one
\* Sunday-to-Saturday week and one category are summed into one field of one row
\* keyed by that week's Sunday.  Stated of a summary served while no write commits.
C3_SundayWeekRows ==
    \A i \in Conns : (Answered(i, "get_summary") /\ reqs[i].steady) =>
        LET wp == Val(reqs[i].body).weekly_progress
        IN  /\ ( /\ act_issued = {1, 2}
                 /\ {<<r.date, r.minutes, r.category>> : r \in activities}
                      = {<<20260105, 30, "Tactics">>, <<20260110, 45, "Tactics">>} )
               => wp = << [week_start |-> Some(20260104), Tactics |-> Some(75)] >>
            /\ \A r \in activities :
                 (IsValidDate(r.date) /\ Cardinality({SqlWeekStart(q.date) : q \in activities}) <= WeeksLimit) =>
                    \E k \in 1..Len(wp) :
                        /\ ~IsNone(wp[k]["week_start"])
                        /\ IsSunday(Val(wp[k]["week_start"]))
                        /\ SundayWeek(Val(wp[k]["week_start"])) = SundayWeek(r.date)
                        /\ r.category \in DOMAIN wp[k]
                        /\ wp[k][r.category] =
                             Some(SumMinutes({q \in activities :
                                     /\ IsValidDate(q.date)
                                     /\ SundayWeek(q.date) = SundayWeek(r.date)
                                     /\ q.category = r.category}))

\* Python truthiness of a query parameter as the claims read it.
Supplied(o) == ~IsNone(o)
SuppliedNonEmptyStr(o) == ~IsNone(o) /\ Val(o) # ""
SuppliedNonEmptyDate(o) == ~IsNone(o) /\ Val(o) # 0

\* The rows a filter selects when an empty-string parameter counts as absent.
Matching(db, q) ==
    {r \in db : /\ SuppliedNonEmptyStr(q.category) => r.category = Val(q.category)
                /\ SuppliedNonEmptyDate(q.start_date) => r.date >= Val(q.start_date)
                /\ SuppliedNonEmptyDate(q.end_date) => r.date <= Val(q.end_date)}

\* The rows a filter selects when every parameter that is not None is a predicate.
MatchingAsClaimed(db, q) ==
    {r \in db : /\ Supplied(q.category) => r.category = Val(q.category)
                /\ Supplied(q.start_date) => r.date >= Val(q.start_date)
                /\ Supplied(q.end_date) => r.date <= Val(q.end_date)}

\* C4 as stated: while the store content is fixed, total_count of GET /activities
\* is the number of stored rows that satisfy every parameter that is not None
\* (category equal, date >= start_date, date <= end_date), and of GET /mistakes
\* the number of stored mistakes, for every limit and offset.
C4_TotalCountAsClaimed ==
    \A i \in Conns :
        /\ (Answered(i, "get_activities") /\ reqs[i].steady) =>
              Val(reqs[i].body).total_count
                 = Cardinality(MatchingAsClaimed(activities, reqs[i].arg))
        /\ (Answered(i, "get_mistakes") /\ reqs[i].steady) =>
              Val(reqs[i].body).total_count = Cardinality(mistakes)

\* C4 amended: the same, with a parameter that is None or the empty string
\* restricting nothing.  The count on the right depends on the store and the
\* filter only, so every limit and offset a listing of that store and filter is
\* asked with gets the same total_count; it is not the length of the page.
C4_TotalCountIndependentOfPage ==
    \A i \in Conns :
        /\ (Answered(i, "get_activities") /\ reqs[i].steady) =>
              Val(reqs[i].body).total_count
                 = Cardinality(Matching(activities, reqs[i].arg))
        /\ (Answered(i, "get_mistakes") /\ reqs[i].steady) =>
              Val(reqs[i].body).total_count = Cardinality(mistakes)

\* C4 witness: a page shorter than total_count under a filter that leaves rows out.
C4_Witness ==
    \E i \in Conns :
        /\ Answered(i, "get_activities") /\ reqs[i].steady
        /\ Len(Val(reqs[i].body).rows) < Val(reqs[i].body).total_count
        /\ Val(reqs[i].body).total_count < Cardinality(activities)

\* What a finished delete of id on table rows (other being the other table) has
\* done when it behaves as C5 says: removed exactly the row and answered 200 when
\* the id was present, answered 404 and changed no row when it was absent.
DeletedAsClaimed(id, status, rows, rowsAfter, other, otherAfter) ==
    /\ otherAfter = other
    /\ IF \E r \in rows : r.id = id
       THEN /\ status = 200
            /\ rowsAfter = {r \in rows : r.id # id}
            /\ Cardinality(rowsAfter) = Cardinality(rows) - 1
       ELSE /\ status = 404
            /\ rowsAfter = rows

\* C5 as stated: a delete of a present id removes exactly that row and answers
\* 200; a delete of an absent id, a just-deleted one included, answers 404 and
\* changes no row.  Both tables.
C5_DeleteAsClaimed ==
    [][ \A i \in Conns :
          /\ Finishes(i, "delete_activity") =>
                DeletedAsClaimed(reqs[i].arg, reqs'[i].status,
                                 activities, activities', mistakes, mistakes')
          /\ Finishes(i, "delete_mistake") =>
                DeletedAsClaimed(reqs[i].arg, reqs'[i].status,
                                 mistakes, mistakes', activities, activities')
      ]_vars

\* The delete of connection i gave up on a lock another connection holds: the write
\* lock at its DELETE, or a shared lock at its commit.  It answers 500 and no row
\* changes.
DeleteLockedOut(i) ==
    /\ reqs'[i].status = 500 /\ reqs'[i].error = "database is locked"
    /\ (db_lock \notin {0, i} \/ OtherReader(i))
    /\ activities' = activities /\ mistakes' = mistakes

\* C5 amended: the same, unless another connection holds the database lock the
\* delete needs for longer than the timeout: the delete then answers 500 and
\* changes no row.  A delete that has not finished has changed no row.
C5_DeleteStep ==
    [][ \A i \in Conns :
          /\ Finishes(i, "delete_activity") =>
                \/ DeleteLockedOut(i)
                \/ DeletedAsClaimed(reqs[i].arg, reqs'[i].status,
                                    activities, activities', mistakes, mistakes')
          /\ Finishes(i, "delete_mistake") =>
                \/ DeleteLockedOut(i)
                \/ DeletedAsClaimed(reqs[i].arg, reqs'[i].status,
                                    mistakes, mistakes', activities, activities')
          /\ (Moves(i, "delete_activity", "start", "executed")
                \/ Moves(i, "delete_mistake", "start", "executed")) =>
                activities' = activities /\ mistakes' = mistakes
      ]_vars

\* C5 witness: an activity id that was issued and deleted is deleted again (404).
C5_Witness ==
    \E i \in Conns :
        /\ Done(i, "delete_activity") /\ reqs[i].status = 404
        /\ reqs[i].arg \in act_issued
        /\ \A r \in activities : r.id # reqs[i].arg

\* C6: when no other request runs from its start to its answer, POST /activities
\* adds exactly one row, with an id above every id the table has ever issued,
\* answers 200 with that row, whose date, week, category, minutes and details are
\* the submitted ones, and changes no other row.
C6_CreateStep ==
    [][ \A i \in Conns :
          (reqs[i].op = "create_activity" /\ reqs[i].alone
             /\ reqs'[i].op = "create_activity" /\ reqs'[i].alone) =>
            LET p == reqs[i].arg
            IN  /\ (reqs[i].pc = "start" /\ reqs'[i].pc # "start") =>
                      /\ reqs'[i].pc = "inserted"
                      /\ activities' = activities /\ mistakes' = mistakes
                /\ (reqs[i].pc = "inserted" /\ reqs'[i].pc # "inserted") =>
                      /\ reqs'[i].pc = "committed"
                      /\ \E row \in activities' :
                            /\ activities' = activities \cup {row}
                            /\ Cardinality(activities') = Cardinality(activities) + 1
                            /\ row.id = reqs'[i].lastrowid
                            /\ row.id \notin act_issued
                            /\ \A id \in act_issued : id < row.id
                            /\ \A r \in activities : r.id # row.id
                            /\ row.date = p.date /\ row.week = p.week
                            /\ row.category = p.category
                            /\ row.minutes = p.minutes /\ row.details = p.details
                      /\ mistakes' = mistakes
                /\ Moves(i, "create_activity", "committed", "selected") =>
                      activities' = activities /\ mistakes' = mistakes
                /\ Finishes(i, "create_activity") =>
                      /\ reqs'[i].status = 200
                      /\ ~IsNone(reqs'[i].body)
                      /\ LET row == Val(reqs'[i].body)
                         IN  /\ row \in activities
                             /\ row.id = reqs[i].lastrowid
                             /\ row.date = p.date /\ row.week = p.week
                             /\ row.category = p.category
                             /\ row.minutes = p.minutes /\ row.details = p.details
                      /\ activities' = activities /\ mistakes' = mistakes
      ]_vars

\* C6 witness: a create served alone and answered after the row with the highest
\* id was deleted.
C6_Witness ==
    \E i \in Conns :
        /\ Done(i, "create_activity") /\ reqs[i].alone /\ reqs[i].status = 200
        /\ \E id \in act_issued :
              /\ id + 1 = Val(reqs[i].body).id
              /\ \A r \in activities : r.id # id

\* Row q is listed before row r: date descending, then id descending.
ListedBefore(q, r) == q.date > r.date \/ (q.date = r.date /\ q.id > r.id)

\* page holds positions [offset, offset+limit) of the rows of M in listing order.
IsPageOf(page, M, limit, offset) ==
    LET rest == IF Cardinality(M) > offset THEN Cardinality(M) - offset ELSE 0
    IN  /\ Len(page) = IF limit < rest THEN limit ELSE rest
        /\ \A k \in 1..Len(page) :
              /\ page[k] \in M
              /\ Cardinality({q \in M : ListedBefore(q, page[k])}) = offset + k - 1

\* C7 as stated: GET /activities returns a listing, and the page it reads and
\* returns is positions [offset, offset+limit) of the stored rows that satisfy
\* every parameter that is not None (category equal, date >= start_date,
\* date <= end_date), by date descending then id descending.
C7_PageAsClaimed ==
    [][ \A i \in Conns :
          /\ Finishes(i, "get_activities") => Returns(i, "get_activities")
          /\ Moves(i, "get_activities", "counted", "page_executed") =>
                IsPageOf(reqs'[i].local.rows, MatchingAsClaimed(activities, reqs[i].arg),
                         reqs[i].arg.limit, reqs[i].arg.offset)
          /\ Returns(i, "get_activities") =>
                Val(reqs'[i].body).rows = reqs[i].local.rows
      ]_vars

\* The listing of connection i gave up on a lock: one of its SELECTs ran while
\* another connection, whose commit had failed, kept its PENDING lock.  It answers
\* 500, returns no rows and no row changes.
ListLockedOut(i) ==
    /\ reqs'[i].pc = "raised"
    /\ reqs'[i].status = 500 /\ reqs'[i].error = "database is locked"
    /\ IsNone(reqs'[i].body)
    /\ OtherPending(i)
    /\ activities' = activities /\ mistakes' = mistakes

\* C7 amended: a parameter that is None or the empty string restricts nothing,
\* and a listing that does not return has been locked out: it answers 500
\* "database is locked".
C7_PageOfFiltered ==
    [][ \A i \in Conns :
          /\ Finishes(i, "get_activities") =>
                Returns(i, "get_activities") \/ ListLockedOut(i)
          /\ Moves(i, "get_activities", "counted", "page_executed") =>
                IsPageOf(reqs'[i].local.rows, Matching(activities, reqs[i].arg),
                         reqs[i].arg.limit, reqs[i].arg.offset)
          /\ Returns(i, "get_activities") =>
                Val(reqs'[i].body).rows = reqs[i].local.rows
      ]_vars

\* C7 witness: an empty-string category, a non-empty page taken at offset 1, and
\* two listed rows that share a date.
C7_Witness ==
    \E i \in Conns :
        /\ Answered(i, "get_activities")
        /\ reqs[i].arg.category = Some("")
        /\ reqs[i].arg.offset = 1
        /\ Len(Val(reqs[i].body).rows) = 2
        /\ Val(reqs[i].body).rows[1].date = Val(reqs[i].body).rows[2].date
        /\ Val(reqs[i].body).total_count = 3

RECURSIVE SumCounts(_)
SumCounts(dist) ==
    IF dist = {} THEN 0
    ELSE LET e == CHOOSE e \in dist : TRUE IN e.count + SumCounts(dist \ {e})

\* dist has one entry per non-null value of column col, with its row count, and
\* no other entry.
IsDistributionOf(dist, db, col) ==
    /\ SumCounts(dist) = Cardinality({m \in db : ~IsNone(m[col])})
    /\ \A m \in db : ~IsNone(m[col]) =>
          /\ Cardinality({e \in dist : e.key = Val(m[col])}) = 1
          /\ \A e \in dist : e.key = Val(m[col]) =>
                e.count = Cardinality({n \in db : n[col] = m[col]})
    /\ \A e \in dist : \E m \in db : ~IsNone(m[col]) /\ Val(m[col]) = e.key

\* C8: whatever inserts and deletes came before, the mistake_distribution that
\* GET /mistakes/stats reads and returns has one entry per non-null
\* mistake_category of the stored mistakes with its row count, none for null, so
\* its counts sum to the number of mistakes with a category; result_distribution
\* likewise; total_count of GET /mistakes counts every stored mistake.
C8_DistributionsSkipNull ==
    [][ \A i \in Conns :
          /\ Moves(i, "get_mistakes_stats", "start", "category_executed") =>
                IsDistributionOf(reqs'[i].local.category_data, mistakes, "mistake_category")
          /\ Moves(i, "get_mistakes_stats", "category_fetched", "result_executed") =>
                IsDistributionOf(reqs'[i].local.result_data, mistakes, "result")
          /\ Returns(i, "get_mistakes_stats") =>
                /\ Val(reqs'[i].body).mistake_distribution = reqs[i].local.category_data
                /\ Val(reqs'[i].body).result_distribution = reqs[i].local.result_data
          /\ Moves(i, "get_mistakes", "start", "count_executed") =>
                reqs'[i].local.total_count
                   = Cardinality({m \in mistakes : IsNone(m.mistake_category)})
                     + Cardinality({m \in mistakes : ~IsNone(m.mistake_category)})
          /\ Returns(i, "get_mistakes") =>
                Val(reqs'[i].body).total_count = reqs[i].local.total_count
      ]_vars

\* C8 witness: statistics over a table holding a mistake without a category, one
\* without a result, and two mistakes of one category.
C8_Witness ==
    \E i \in Conns :
        /\ Answered(i, "get_mistakes_stats") /\ reqs[i].steady
        /\ \E m \in mistakes : IsNone(m.mistake_category)
        /\ \E m \in mistakes : IsNone(m.result)
        /\ \E e \in Val(reqs[i].body).mistake_distribution : e.count = 2

\* The 12 greatest of a set of week_start values.
GreatestWeeks(S) == {w \in S : Cardinality({v \in S : SqlLess(w, v)}) < WeeksLimit}

\* C9: weekly_progress has one row per distinct week_start of the stored
\* activities, the 12 greatest only, in strictly ascending order; a row's fields
\* are exactly the categories with an activity in that week; the last row's
\* week_start is current_week_start, the week_start of the maximum date.  Stated
\* of a summary served while no write commits.
C9_WeeklyProgress ==
    \A i \in Conns : (Answered(i, "get_summary") /\ reqs[i].steady) =>
        LET body == Val(reqs[i].body)
            wp == body.weekly_progress
            kept == GreatestWeeks({SqlWeekStart(r.date) : r \in activities})
        IN  /\ Len(wp) = Cardinality(kept)
            /\ \A k \in 1..Len(wp) : wp[k]["week_start"] \in kept
            /\ \A k, j \in 1..Len(wp) : k < j => SqlLess(wp[k]["week_start"], wp[j]["week_start"])
            /\ \A k \in 1..Len(wp) :
                  DOMAIN wp[k] \ {"week_start"}
                    = {r.category : r \in {r \in activities :
                                              SqlWeekStart(r.date) = wp[k]["week_start"]}}
            /\ activities # {} =>
                  /\ wp[Len(wp)]["week_start"] = body.current_week_start
                  /\ body.current_week_start
                       = SqlWeekStart(SetMax({r.date : r \in activities}))

\* C10: a create request that has committed its row finds it when it reads it back
\* and returns it: it never ends in an error other than a lock timeout.
C10_ReadBackFindsRow ==
    \A i \in Conns :
        (Done(i, "create_activity") /\ reqs[i].error # "database is locked") =>
            /\ reqs[i].status = 200
            /\ reqs[i].body = Some([id |-> reqs[i].lastrowid] @@ reqs[i].arg)

====
